---- MODULE Spec2Model ----
(***************************************************************************)
(* A model of the parsing / normalisation pipeline of the health-data      *)
(* dashboard: xml_parser and csv_parser (file_parser.py), excel_parser     *)
(* (app.py), display_metrics and safe_percentage_change (utils.py).        *)
(*                                                                         *)
(* Numbers.  Every real number of the program is held as an integer count  *)
(* of thousandths (30.004 is 30004, 1000 m is 1000000).  round(2) is       *)
(* rounding to a multiple of 10 thousandths, half to even as numpy does.   *)
(* Floating-point representation error is not modelled.  The float values  *)
(* NaN, +inf and -inf are cells of their own kind.                         *)
(***************************************************************************)
EXTENDS Integers, Sequences, FiniteSets, TLC

VARIABLES file, records, result, shown, session_data, chart

vars == <<file, records, result, shown, session_data, chart>>

(* ------------------------------ bounds -------------------------------- *)

\* Most Record elements in an uploaded XML file.
MaxRecs == 2

\* Most data rows in an uploaded CSV file.
MaxRows == 2

\* Calendar days the timestamps of the inputs fall on.
Days == {1, 2}

(* ----------------------------- arithmetic ----------------------------- *)

RECURSIVE SumSeq(_)
SumSeq(s) == IF s = <<>> THEN 0 ELSE Head(s) + SumSeq(Tail(s))

\* n / d rounded to the nearest integer, halves to the even neighbour (d > 0).
RoundHalfEven(n, d) ==
    LET q == n \div d
        r == n % d
    IN  IF 2 * r < d THEN q
        ELSE IF 2 * r > d THEN q + 1
        ELSE IF q % 2 = 0 THEN q ELSE q + 1

\* Series.round(2) / DataFrame.round(2) on a finite value held in thousandths.
Round2(x) == 10 * RoundHalfEven(x, 10)

\* The kinds of cell a float64 column holds.
Fin(n) == [k |-> "fin", v |-> n]
NaN == [k |-> "nan", v |-> 0]
PosInf == [k |-> "inf", v |-> 1]
NegInf == [k |-> "inf", v |-> -1]

\* float64 true division n / d of two exact sums: x/0 is NaN or +-inf, never
\* a fault.  A finite quotient is kept as the exact fraction until rounded.
FloatDiv(n, d) ==
    IF d = 0
    THEN IF n = 0 THEN NaN ELSE IF n > 0 THEN PosInf ELSE NegInf
    ELSE IF d > 0 THEN [k |-> "rat", n |-> n, d |-> d]
    ELSE [k |-> "rat", n |-> -n, d |-> -d]

\* .fillna(0).round(2) on one cell: NaN becomes 0, an infinity stays.
FillnaRound(c) ==
    IF c.k = "nan" THEN Fin(0)
    ELSE IF c.k = "rat" THEN Fin(10 * RoundHalfEven(c.n, 10 * c.d))
    ELSE IF c.k = "fin" THEN Fin(Round2(c.v))
    ELSE c

\* The ascending sequence of a finite set of integers (a sorted group index).
RECURSIVE SortedSeq(_)
SortedSeq(S) ==
    IF S = {} THEN <<>>
    ELSE LET m == CHOOSE x \in S : \A y \in S : x <= y
         IN  <<m>> \o SortedSeq(S \ {m})

SeqRange(s) == {s[i] : i \in 1..Len(s)}

StrictlyIncreasing(s) == \A i \in 1..Len(s) : \A j \in 1..Len(s) : i < j => s[i] < s[j]

(* --------------------------- xml_parser ------------------------------- *)

HKPrefixes == {"HKQuantityTypeIdentifier", "HKCategoryTypeIdentifier", "HKDataType"}

sum_cols ==
    <<"ActiveEnergyBurned", "BasalEnergyBurned", "DistanceWalkingRunning",
      "FlightsClimbed", "StepCount">>

weighted_cols ==
    <<"HeadphoneAudioExposure", "WalkingAsymmetryPercentage",
      "WalkingDoubleSupportPercentage", "WalkingSpeed", "WalkingStepLength">>

\* The rename of line 98: pivot column -> canonical metric name.
xml_rename ==
    [c \in SeqRange(sum_cols) \cup SeqRange(weighted_cols) |->
        CASE c = "ActiveEnergyBurned" -> "Active Energy Burned (cal)"
          [] c = "BasalEnergyBurned" -> "Basal Energy Burned (cal)"
          [] c = "DistanceWalkingRunning" -> "Distance Walking & Running (km)"
          [] c = "FlightsClimbed" -> "Flights Climbed"
          [] c = "StepCount" -> "Step Count"
          [] c = "HeadphoneAudioExposure" -> "Headphone Audio Exposure (dB)"
          [] c = "WalkingAsymmetryPercentage" -> "Walking Asymmetry Percentage (%)"
          [] c = "WalkingDoubleSupportPercentage" -> "Walking Double Support Percentage (%)"
          [] c = "WalkingSpeed" -> "Walking Speed (m/s)"
          [] c = "WalkingStepLength" -> "Walking Step Length (m)"]

\* A timestamp attribute: a string pd.to_datetime parses to (day, second of
\* the day), or one it cannot parse.
GoodStamp(d, s) == [ok |-> TRUE, day |-> d, sec |-> s]
BadStamp == [ok |-> FALSE, day |-> 0, sec |-> 0]

\* A value attribute: numeric text (held in thousandths) or other text.
NumText(v) == [num |-> TRUE, v |-> v]
OtherText == [num |-> FALSE, v |-> 0]

\* The type attribute: a namespace prefix followed by the identifier.
RawTypes ==
    { [ns |-> "HKQuantityTypeIdentifier", id |-> "StepCount"],
      [ns |-> "HKQuantityTypeIdentifier", id |-> "WalkingSpeed"],
      [ns |-> "HKCategoryTypeIdentifier", id |-> "SleepAnalysis"] }

\* (startDate, endDate) seconds of the day: a zero, a positive and a negative
\* duration.
Spans == {<<0, 0>>, <<0, 10>>, <<10, 0>>}

XmlValues == {30004, 50000}

XmlRecord(t, d, sp, val) ==
    [type |-> t, creationDate |-> GoodStamp(d, sp[2]),
     startDate |-> GoodStamp(d, sp[1]), endDate |-> GoodStamp(d, sp[2]),
     value |-> val]

\* The Record elements the inputs are drawn from: every aggregated type with
\* every span, a type xml_parser does not aggregate, a value that is not a
\* number, and a creationDate that does not parse.
XmlRecords ==
    { XmlRecord(t, d, sp, NumText(v)) :
        t \in {r \in RawTypes : r.ns = "HKQuantityTypeIdentifier"},
        d \in Days, sp \in Spans, v \in XmlValues }
    \cup { XmlRecord([ns |-> "HKCategoryTypeIdentifier", id |-> "SleepAnalysis"],
                     d, <<0, 10>>, NumText(v)) : d \in Days, v \in XmlValues }
    \cup { XmlRecord(t, 1, <<0, 10>>, OtherText) :
             t \in {r \in RawTypes : r.ns = "HKQuantityTypeIdentifier"} }
    \cup { [XmlRecord([ns |-> "HKQuantityTypeIdentifier", id |-> "StepCount"],
                      1, <<0, 10>>, NumText(50000))
              EXCEPT !.creationDate = BadStamp] }

\* The records of an export that has every type display_metrics reads, one
\* record each, and a second day of steps.
FullDayRecords ==
    [i \in 1..4 |->
        XmlRecord([ns |-> "HKQuantityTypeIdentifier",
                   id |-> <<"ActiveEnergyBurned", "BasalEnergyBurned",
                            "DistanceWalkingRunning", "StepCount">>[i]],
                  1, <<0, 10>>, NumText(<<300000, 1500000, 5000, 8000000>>[i]))]
    \o <<XmlRecord([ns |-> "HKQuantityTypeIdentifier", id |-> "StepCount"],
                   2, <<0, 10>>, NumText(0))>>

\* An uploaded XML file: text ET.iterparse rejects, or a document with the
\* given Record elements.
MalformedXml == [kind |-> "xml", wellformed |-> FALSE, recs |-> <<>>]
XmlFile(rs) == [kind |-> "xml", wellformed |-> TRUE, recs |-> rs]

\* The elements of the document in the order ET.iterparse reports their end
\* tags, children before parents: a Me element, every Record after its
\* MetadataEntry child, the HealthData root last.
Element(tag, attrib) == [tag |-> tag, attrib |-> attrib]

RECURSIVE RecordEvents(_)
RecordEvents(rs) ==
    IF rs = <<>> THEN <<>>
    ELSE <<Element("MetadataEntry", [key |-> "HKTimeZone", value |-> OtherText]),
           Element("Record", Head(rs))>> \o RecordEvents(Tail(rs))

EndEvents(f) ==
    <<Element("Me", [type |-> [ns |-> "HKCharacteristicTypeIdentifier", id |-> "Me"]])>>
    \o RecordEvents(f.recs)
    \o <<Element("HealthData", [locale |-> "en"])>>

\* The ElementTree implementations an interpreter can load (line 3): the C
\* accelerator, or the Python module when the accelerator is not built.
ETreeBuilds == {"_elementtree", "python"}

\* A dictionary without keys.
EmptyAttrib == [k \in {} |-> 0]

\* Line 17: elem.clear() after records.append(elem.attrib) of line 16.  The
\* accelerator drops the element's reference to its attribute dictionary, so
\* the appended dictionary keeps its items; the Python module empties that
\* same dictionary in place.
AttribAfterClear(attrib, build) ==
    IF build = "_elementtree" THEN attrib ELSE EmptyAttrib

\* Lines 13-17: the list `records` once the loop has ended.
iterparse_records(f, build) ==
    LET events == EndEvents(f)
        kept == SelectSeq(events, LAMBDA e : e.tag = "Record")
    IN  [i \in 1..Len(kept) |-> AttribAfterClear(kept[i].attrib, build)]

\* Lines 19-20: pd.DataFrame(records).empty, true of no records and of
\* records without any attribute.
RecordsEmpty(recs) == \A i \in 1..Len(recs) : DOMAIN recs[i] = {}

\* What a parser hands back: a table (index, columns, one row of cells per
\* index entry), pd.DataFrame() or None, and the st.warning / st.error shown.
Table(parser, index, columns, data) ==
    [kind |-> "table", parser |-> parser, msg |-> "none",
     index |-> index, columns |-> columns, data |-> data]

NoTable(kind, parser, msg) ==
    [kind |-> kind, parser |-> parser, msg |-> msg,
     index |-> <<>>, columns |-> <<>>, data |-> <<>>]

Pending == NoTable("pending", "none", "none")

\* DataFrame.empty: no rows or no columns.
IsEmpty(t) == t.index = <<>> \/ t.columns = <<>>

\* Line 52: str.replace(regex) deletes a namespace prefix from the type.
StripPrefix(t) == IF t.ns \in HKPrefixes THEN [ns |-> "", id |-> t.id] ELSE t

InCols(t, cols) == t.ns = "" /\ t.id \in SeqRange(cols)

\* Line 59: pd.to_numeric(errors="coerce").fillna(0).
XmlValueDefault == 0
CoerceValueWith(val, default) == IF val.num THEN val.v ELSE default
CoerceValue(val) == CoerceValueWith(val, XmlValueDefault)

\* Line 46: (endDate - startDate).dt.total_seconds().
DurationSeconds(r) ==
    (r.endDate.day - r.startDate.day) * (24 * 60 * 60) + r.endDate.sec - r.startDate.sec

\* Lines 38-40: pd.to_datetime without errors="coerce" raises on the first
\* text it cannot parse, for the whole column.
DatesParse(recs) ==
    \A i \in 1..Len(recs) :
        recs[i].creationDate.ok /\ recs[i].startDate.ok /\ recs[i].endDate.ok

\* Lines 43-59: the frame after the column transformations, one row per
\* Record, a value that is not a number replaced by the default.
XmlRowsWith(recs, default) ==
    [i \in 1..Len(recs) |->
        [Date |-> recs[i].creationDate.day,
         type |-> StripPrefix(recs[i].type),
         value |-> CoerceValueWith(recs[i].value, default),
         Duration |-> DurationSeconds(recs[i])]]

XmlRows(recs) == XmlRowsWith(recs, XmlValueDefault)

Matching(rows, d, c) ==
    {i \in 1..Len(rows) : rows[i].Date = d /\ rows[i].type.id = c /\ rows[i].type.ns = ""}

\* aggfunc="sum" of one (Date, type) group of a pivot_table.
GroupFirstValue(rows, d, c) ==
    rows[CHOOSE i \in Matching(rows, d, c) : \A j \in Matching(rows, d, c) : i <= j].value

GroupSumValue(rows, d, c) ==
    SumSeq([i \in 1..Len(rows) |-> IF i \in Matching(rows, d, c) THEN rows[i].value ELSE 0])

GroupSumUnweighted(rows, d, c) ==
    SumSeq([i \in 1..Len(rows) |-> IF i \in Matching(rows, d, c) THEN rows[i].value ELSE 0])

GroupSumWeighted(rows, d, c) ==
    SumSeq([i \in 1..Len(rows) |->
              IF i \in Matching(rows, d, c) THEN rows[i].value * rows[i].Duration ELSE 0])

GroupSumDuration(rows, d, c) ==
    SumSeq([i \in 1..Len(rows) |-> IF i \in Matching(rows, d, c) THEN rows[i].Duration ELSE 0])

\* The index and the columns of a pivot_table over the rows of the listed
\* types: both sorted, only the dates and types that occur.
PivotIndex(rows, cols) ==
    SortedSeq({rows[i].Date : i \in {j \in 1..Len(rows) : InCols(rows[j].type, cols)}})

PivotColumns(rows, cols) ==
    SelectSeq(cols, LAMBDA c : \E i \in 1..Len(rows) : rows[i].type.ns = "" /\ rows[i].type.id = c)

\* Lines 77-82: sum_df.
SumFrame(rows) ==
    LET index == PivotIndex(rows, sum_cols)
        columns == PivotColumns(rows, sum_cols)
    IN  [index |-> index, columns |-> columns,
         cell |-> [d \in SeqRange(index), c \in SeqRange(columns) |->
                     FillnaRound(IF Matching(rows, d, c) = {} THEN NaN
                                 ELSE Fin(GroupSumValue(rows, d, c)))]]

\* Lines 83-94: weighted_avg_df, the pivot of value * duration divided by
\* the pivot of duration.
WeightedFrame(rows) ==
    LET index == PivotIndex(rows, weighted_cols)
        columns == PivotColumns(rows, weighted_cols)
    IN  [index |-> index, columns |-> columns,
         cell |-> [d \in SeqRange(index), c \in SeqRange(columns) |->
                     IF Matching(rows, d, c) = {} THEN NaN
                     ELSE FloatDiv(GroupSumWeighted(rows, d, c),
                                   GroupSumDuration(rows, d, c))]]

\* The row labels of pd.concat(axis=1) (outer join, sort=False) over object
\* indexes: the first frame's labels, then the second's new ones in order.
ConcatIndex(a, b) == a \o SelectSeq(b, LAMBDA d : d \notin SeqRange(a))

\* Line 97: pd.concat([sum_df, weighted_avg_df], axis=1).fillna(0).round(2),
\* and the rename of line 98.
XmlAssemble(rows) ==
    LET s == SumFrame(rows)
        w == WeightedFrame(rows)
        index == ConcatIndex(s.index, w.index)
        cols == s.columns \o w.columns
        At(f, d, c) == IF d \in SeqRange(f.index) THEN f.cell[d, c] ELSE NaN
    IN  Table("xml_parser", index,
              [j \in 1..Len(cols) |-> xml_rename[cols[j]]],
              [i \in 1..Len(index) |->
                 [n \in {xml_rename[c] : c \in SeqRange(cols)} |->
                    LET c == CHOOSE x \in SeqRange(cols) : xml_rename[x] = n
                    IN  FillnaRound(IF c \in SeqRange(s.columns)
                                    THEN At(s, index[i], c)
                                    ELSE At(w, index[i], c))]])

\* Lines 115-117: any exception of the processing block is reported and
\* replaced by an empty DataFrame.
XmlProcessingFailedRaises == NoTable("raised", "xml_parser", "none")
XmlProcessingFailed == NoTable("empty_df", "xml_parser", "error")

\* xml_parser, lines 12-117, on the document as the loop of lines 13-17 has
\* read it (f.recs is the list `records`).
xml_parser(f) ==
    IF ~f.wellformed THEN NoTable("empty_df", "xml_parser", "error")
    ELSE IF RecordsEmpty(f.recs) THEN NoTable("empty_df", "xml_parser", "warning")
    ELSE IF ~DatesParse(f.recs) THEN XmlProcessingFailed
    ELSE XmlAssemble(XmlRows(f.recs))

(* --------------------------- csv_parser ------------------------------- *)

\* The keys of google_fit_units (lines 160-178), in the order of a Google Fit
\* daily summary.
GoogleColumns ==
    <<"Move Minutes count", "Calories (kcal)", "Distance (m)", "Heart Points",
      "Heart Minutes", "Low latitude (deg)", "Low longitude (deg)",
      "High latitude (deg)", "High longitude (deg)", "Average speed (m/s)",
      "Max speed (m/s)", "Min speed (m/s)", "Step count",
      "Cycling duration (ms)", "Inactive duration (ms)",
      "Walking duration (ms)", "Running duration (ms)">>

google_fit_units ==
    [c \in SeqRange(GoogleColumns) |->
        CASE c = "Move Minutes count" -> "Move Minutes (mins)"
          [] c = "Calories (kcal)" -> "Calories Burned (kcal)"
          [] c = "Distance (m)" -> "Distance Covered (km)"
          [] c = "Heart Points" -> "Heart Points"
          [] c = "Heart Minutes" -> "Heart Minutes (minutes)"
          [] c = "Low latitude (deg)" -> "Low Latitude (deg)"
          [] c = "Low longitude (deg)" -> "Low Longitude (deg)"
          [] c = "High latitude (deg)" -> "High Latitude (deg)"
          [] c = "High longitude (deg)" -> "High Longitude (deg)"
          [] c = "Average speed (m/s)" -> "Average Speed (m/s)"
          [] c = "Max speed (m/s)" -> "Max Speed (m/s)"
          [] c = "Min speed (m/s)" -> "Min Speed (m/s)"
          [] c = "Step count" -> "Step Count"
          [] c = "Cycling duration (ms)" -> "Cycling duration (s)"
          [] c = "Inactive duration (ms)" -> "Inactive duration (s)"
          [] c = "Walking duration (ms)" -> "Walking duration (s)"
          [] c = "Running duration (ms)" -> "Running duration (s)"]

\* DataFrame.rename(columns=mapping): a label the mapping lacks is kept.
RenameLabel(mapping, c) == IF c \in DOMAIN mapping THEN mapping[c] ELSE c

\* Lines 138-142: the columns divided in place by 1000.
KiloDivisor == 1000
DividedColumns ==
    <<"Distance Covered (km)", "Cycling duration (s)", "Inactive duration (s)",
      "Walking duration (s)", "Running duration (s)">>

\* Lines 144-148: the columns rounded to 2 places.
RoundedColumns ==
    <<"Calories Burned (kcal)", "Distance Covered (km)", "Average Speed (m/s)",
      "Max Speed (m/s)", "Min Speed (m/s)">>

\* The headers of the uploaded CSV files: a full Google Fit export, one
\* without the Date column, one without the distance column, one with a
\* column google_fit_units has no entry for.
FullHeader == <<"Date">> \o GoogleColumns
Headers ==
    { FullHeader,
      GoogleColumns,
      SelectSeq(FullHeader, LAMBDA c : c # "Distance (m)"),
      Append(FullHeader, "Average weight (kg)") }

\* Distances in metres (a blank cell is NaN), heart points and cycling
\* milliseconds of a row; the other columns hold one value each.
CsvDistances == {Fin(1000 * 1000), Fin(1234 * 1000), NaN}
CsvHeartPoints == {Fin(0), Fin(5 * 1000)}
CsvCycling == {Fin(0), Fin(60000 * 1000)}

CsvFiller(c) ==
    CASE c = "Calories (kcal)" -> Fin(2000555)
      [] c = "Average speed (m/s)" -> Fin(1234)
      [] c = "Max speed (m/s)" -> Fin(2346)
      [] c = "Step count" -> Fin(8000 * 1000)
      [] c = "Walking duration (ms)" -> Fin(60000 * 1000)
      [] c = "Average weight (kg)" -> Fin(70 * 1000)
      [] OTHER -> Fin(0)

CsvRow(h, date, dist, hp, cyc) ==
    [c \in SeqRange(h) |->
        CASE c = "Date" -> date
          [] c = "Distance (m)" -> dist
          [] c = "Heart Points" -> hp
          [] c = "Cycling duration (ms)" -> cyc
          [] OTHER -> CsvFiller(c)]

CsvRowsOf(h) ==
    { CsvRow(h, GoodStamp(d, 0), dist, hp, cyc) :
        d \in Days, dist \in CsvDistances, hp \in CsvHeartPoints, cyc \in CsvCycling }
    \cup { CsvRow(h, BadStamp, Fin(1000 * 1000), Fin(0), Fin(0)) }

\* An uploaded CSV file: its header line and its data rows.
CsvFile(h, rs) == [kind |-> "csv", header |-> h, rows |-> rs]

\* A frame being built: its index labels, its column labels in order, and
\* one function from column label to cell per row.
Frame(index, columns, data) == [index |-> index, columns |-> columns, data |-> data]

HasColumn(df, c) == c \in SeqRange(df.columns)

\* df.fillna(0).
Fillna0(c) == IF c.k = "nan" THEN Fin(0) ELSE c


\* df.rename(columns=mapping, inplace=True).
RenameColumns(df, mapping) ==
    Frame(df.index,
          [j \in 1..Len(df.columns) |-> RenameLabel(mapping, df.columns[j])],
          [i \in 1..Len(df.data) |->
             [n \in {RenameLabel(mapping, c) : c \in SeqRange(df.columns)} |->
                df.data[i][CHOOSE c \in SeqRange(df.columns) : RenameLabel(mapping, c) = n]]])

\* df.drop(c, axis=1, inplace=True).
DropColumn(df, c) ==
    Frame(df.index, SelectSeq(df.columns, LAMBDA x : x # c),
          [i \in 1..Len(df.data) |-> [x \in SeqRange(df.columns) \ {c} |-> df.data[i][x]]])

ColumnSum(df, c) == SumSeq([i \in 1..Len(df.data) |-> df.data[i][c].v])

\* x /= 1000 on a finite cell.
DivideKilo(c) == Fin(c.v \div KiloDivisor)

RoundCell(c) == Fin(Round2(c.v))

\* pd.to_numeric(x, errors="coerce") / 1000: NaN stays NaN.
DivideKiloNaN(c) == IF c.k = "nan" THEN c ELSE DivideKilo(c)

\* One column-wise operation on a cell.
CellOp(op, c) ==
    CASE op = "/= 1000" -> DivideKilo(c)
      [] op = "round(2)" -> RoundCell(c)
      [] op = "to_numeric / 1000" -> DivideKiloNaN(c)
      [] op = "fillna(0)" -> Fillna0(c)

\* Applies the operation to the cells of the listed columns that the frame
\* has.
MapColumns(df, cols, op) ==
    Frame(df.index, df.columns,
          [i \in 1..Len(df.data) |->
             [c \in SeqRange(df.columns) |->
                IF c \in SeqRange(cols) THEN CellOp(op, df.data[i][c]) ELSE df.data[i][c]]])

HasDate(f) == "Date" \in SeqRange(f.header)

\* Line 133: df.pop("Date") hands back the Date column, and raises KeyError
\* when the frame has none.
DateColumnOrRowNumbers(f) ==
    [raised |-> FALSE,
     dates |-> [i \in 1..Len(f.rows) |->
                  IF HasDate(f) THEN f.rows[i]["Date"] ELSE GoodStamp(i, 0)]]

DateColumn(f) ==
    IF HasDate(f)
    THEN [raised |-> FALSE, dates |-> [i \in 1..Len(f.rows) |-> f.rows[i]["Date"]]]
    ELSE [raised |-> TRUE, dates |-> <<>>]

\* Lines 155-157: any exception is reported and None returned.
CsvFailed == NoTable("None", "csv_parser", "error")

\* Lines 133-134: the frame indexed by the parsed dates, blanks filled.
CsvIndexed(f, dates) ==
    LET cols == SelectSeq(f.header, LAMBDA c : c # "Date")
    IN  Frame([i \in 1..Len(f.rows) |-> dates[i].day],
              cols,
              [i \in 1..Len(f.rows) |-> [c \in SeqRange(cols) |-> Fillna0(f.rows[i][c])]])

\* Lines 136-153 on the indexed frame.
CsvNormalize(df0) ==
    LET df1 == RenameColumns(df0, google_fit_units)
    IN  IF \E c \in SeqRange(DividedColumns) \cup SeqRange(RoundedColumns) : ~HasColumn(df1, c)
        THEN CsvFailed
        ELSE LET df2 == MapColumns(df1, DividedColumns, "/= 1000")
                 df3 == MapColumns(df2, RoundedColumns, "round(2)")
                 df4 == IF ColumnSum(df3, "Cycling duration (s)") = 0
                        THEN DropColumn(df3, "Cycling duration (s)")
                        ELSE df3
             IN  Table("csv_parser", df4.index, df4.columns, df4.data)

\* csv_parser, lines 126-157.  A file without data rows (or without columns)
\* reads as an empty frame.
csv_parser(f) ==
    IF f.rows = <<>> \/ f.header = <<>> THEN NoTable("None", "csv_parser", "warning")
    ELSE LET popped == DateColumn(f)
         IN  IF popped.raised THEN CsvFailed
             ELSE IF \E i \in 1..Len(f.rows) : ~popped.dates[i].ok THEN CsvFailed
             ELSE CsvNormalize(CsvIndexed(f, popped.dates))

(* --------------------------- excel_parser ----------------------------- *)

\* required_columns of app.py, lines 119-129, in dictionary order.
RequiredColumns ==
    <<"Move Minutes count", "Calories (kcal)", "Distance (m)",
      "Walking duration (ms)", "Min speed (m/s)", "Average speed (m/s)",
      "Max speed (m/s)", "Step count", "Heart Points">>

required_columns ==
    [c \in SeqRange(RequiredColumns) |->
        CASE c = "Move Minutes count" -> "Move Minutes"
          [] c = "Calories (kcal)" -> "Calories"
          [] c = "Distance (m)" -> "Distance"
          [] c = "Walking duration (ms)" -> "Walking Duration"
          [] c = "Min speed (m/s)" -> "Min Speed"
          [] c = "Average speed (m/s)" -> "Average Speed"
          [] c = "Max speed (m/s)" -> "Max Speed"
          [] c = "Step count" -> "Steps"
          [] c = "Heart Points" -> "Heart Points"]

\* df[list(available_columns.keys())]: the listed columns, in that order.
SelectColumns(df, cols) ==
    Frame(df.index, cols,
          [i \in 1..Len(df.data) |-> [c \in SeqRange(cols) |-> df.data[i][c]]])

ExcelFailed == NoTable("None", "excel_parser", "error")

\* excel_parser, app.py lines 104-151.  read_excel fails on CSV text and the
\* file is read with read_csv.
excel_parser(f) ==
    IF ~HasDate(f) THEN ExcelFailed
    ELSE IF \E i \in 1..Len(f.rows) : ~f.rows[i]["Date"].ok THEN ExcelFailed
    ELSE LET cols == SelectSeq(f.header, LAMBDA c : c # "Date")
             df0 == Frame([i \in 1..Len(f.rows) |-> f.rows[i]["Date"].day], cols,
                          [i \in 1..Len(f.rows) |-> [c \in SeqRange(cols) |-> f.rows[i][c]]])
             available == SelectSeq(RequiredColumns, LAMBDA c : HasColumn(df0, c))
             df1 == IF available # <<>>
                    THEN RenameColumns(SelectColumns(df0, available), required_columns)
                    ELSE df0
             df2 == MapColumns(df1, <<"Walking Duration">>, "to_numeric / 1000")
             df3 == MapColumns(df2, df2.columns, "fillna(0)")
         IN  Table("excel_parser", df3.index, df3.columns, df3.data)

(* ------------------------- display_metrics ---------------------------- *)

\* A float that is the quotient of two integers, n thousandths over d (d > 0).
Rat(n, d) == [n |-> n, d |-> d]

\* f"{x:.2f}" and f"{x:.0f}": the value rounded to hundredths and to units.
Format2(x) == 10 * RoundHalfEven(x.n, 10 * x.d)
Format0(x) == 1000 * RoundHalfEven(x.n, 1000 * x.d)

NotApplicable == [text |-> "N/A", v |-> 0]
Percent(v) == [text |-> "% (last 30 days)", v |-> v]

\* utils.py lines 33-37.  `not previous` is true of 0 and 0.0.
PercentageOf(current, previous) ==
    LET num == (current.n * previous.d - previous.n * current.d) * 100 * 1000
        den == current.d * previous.n
    IN  IF den > 0 THEN Percent(10 * RoundHalfEven(num, 10 * den))
        ELSE Percent(10 * RoundHalfEven(-num, 10 * (-den)))

safe_percentage_change(current, previous) ==
    IF previous.n = 0 THEN NotApplicable
    ELSE PercentageOf(current, previous)

\* Series.tail(30): the positions of the last 30 rows.
TailWindow == 30
TailRows(t) == {i \in 1..Len(t.data) : i > Len(t.data) - TailWindow}
AllRows(t) == 1..Len(t.data)

\* Series.mean() of a column over the given rows (the headline columns hold
\* finite values only).
MeanOf(t, c, rows) ==
    Rat(SumSeq([i \in 1..Len(t.data) |-> IF i \in rows THEN t.data[i][c].v ELSE 0]),
        Cardinality(rows))

\* ((a + b) / 2).mean() over the given rows.
MeanOfHalfSum(t, a, b, rows) ==
    Rat(SumSeq([i \in 1..Len(t.data) |->
                  IF i \in rows THEN t.data[i][a].v + t.data[i][b].v ELSE 0]),
        2 * Cardinality(rows))

Metric(label, value, delta) == [label |-> label, value |-> value, delta |-> delta]

Shown(fault, slots, metrics) == [fault |-> fault, slots |-> slots, metrics |-> metrics]

Unshown == Shown("pending", 0, <<>>)

\* The columns display_metrics reads, lines 48-71.
HeadlineColumns(t) ==
    IF "Heart Points" \in SeqRange(t.columns)
    THEN {"Step Count", "Distance Covered (km)", "Calories Burned (kcal)", "Heart Points"}
    ELSE {"Step Count", "Distance Walking & Running (km)",
          "Active Energy Burned (cal)", "Basal Energy Burned (cal)"}

\* Line 75: st.columns(4 if avg_hp else 3); avg_hp is None (Apple), or a mean.
SlotCount(is_google_fit, avg_hp) == IF is_google_fit /\ avg_hp.n # 0 THEN 4 ELSE 3

\* display_metrics, utils.py lines 40-102.
display_metrics(t) ==
    LET is_google_fit == "Heart Points" \in SeqRange(t.columns)
        all == AllRows(t)
        last == TailRows(t)
    IN  IF \E c \in HeadlineColumns(t) : c \notin SeqRange(t.columns)
        THEN Shown("KeyError", 0, <<>>)
        ELSE
        LET steps == "Step Count"
            dist == IF is_google_fit THEN "Distance Covered (km)"
                    ELSE "Distance Walking & Running (km)"
            avg_distance == MeanOf(t, dist, all)
            avg_distance_30 == MeanOf(t, dist, last)
            avg_energy == IF is_google_fit
                          THEN MeanOf(t, "Calories Burned (kcal)", all)
                          ELSE MeanOfHalfSum(t, "Active Energy Burned (cal)",
                                             "Basal Energy Burned (cal)", all)
            avg_energy_30 == IF is_google_fit
                             THEN MeanOf(t, "Calories Burned (kcal)", last)
                             ELSE MeanOfHalfSum(t, "Active Energy Burned (cal)",
                                                "Basal Energy Burned (cal)", last)
            avg_steps == MeanOf(t, steps, all)
            avg_steps_30 == MeanOf(t, steps, last)
            avg_hp == IF is_google_fit THEN MeanOf(t, "Heart Points", all) ELSE Rat(0, 1)
            avg_hp_30 == IF is_google_fit THEN MeanOf(t, "Heart Points", last) ELSE Rat(0, 1)
            slots == SlotCount(is_google_fit, avg_hp)
            three ==
                <<Metric("Average Distance", Format2(avg_distance),
                         safe_percentage_change(avg_distance_30, avg_distance)),
                  Metric("Average Energy Burned", Format2(avg_energy),
                         safe_percentage_change(avg_energy_30, avg_energy)),
                  Metric("Average Steps", Format0(avg_steps),
                         safe_percentage_change(avg_steps_30, avg_steps))>>
        IN  IF ~is_google_fit THEN Shown("none", slots, three)
            ELSE IF slots < 4 THEN Shown("IndexError", slots, three)
            ELSE Shown("none", slots,
                       Append(three, Metric("Average Heart Points", Format0(avg_hp),
                                            safe_percentage_change(avg_hp_30, avg_hp))))

\* The pairs (current, previous) safe_percentage_change is applied to on its
\* own, in thousandths.
PercentInputs == {-1500, 0, 1000, 1500, 3000}

PercentPair(c, p) == [kind |-> "percent", current |-> Rat(c, 1), previous |-> Rat(p, 1)]

(* ------------------------ the table of the session ------------------- *)

\* st.session_state["data"]: absent, or the table a parser returned together
\* with the type of its index labels.
NotHeld == [held |-> FALSE, table |-> Pending, index_dtype |-> "none"]
Held(t, dtype) == [held |-> TRUE, table |-> t, index_dtype |-> dtype]

\* The index of a returned table: xml_parser indexes by df["Date"].dt.date,
\* an object index of datetime.date (file_parser.py line 43); csv_parser by
\* pd.to_datetime(...), a DatetimeIndex (line 133).
IndexDtype(t) == IF t.parser = "xml_parser" THEN "object" ELSE "datetime64[ns]"

\* What a plot function puts on the page: the figure and the columns drawn,
\* or a notice.
Chart(kind, cols) == [kind |-> kind, cols |-> cols]
NoChart == Chart("none", <<>>)

\* The columns a selectbox or multiselect is answered with: the first (the
\* default) or the last.
Selectable(t) == {t.columns[1], t.columns[Len(t.columns)]}

\* utils.py lines 105-133 with the column chosen: an index that is not a
\* DatetimeIndex is replaced, on the frame passed in, by pd.to_datetime of
\* it (datetime.date labels convert without error).
plot_calendar_heatmap(data, col) ==
    [data |-> [data EXCEPT !.index_dtype = "datetime64[ns]"],
     chart |-> Chart("calendar heatmap", <<col>>)]

\* visualisations.py lines 46-51.
excluded_cols ==
    <<"Low Latitude (deg)", "Low Longitude (deg)", "High Latitude (deg)",
      "High Longitude (deg)">>

\* visualisations.py lines 42-60: the columns are dropped from df.copy().
plot_heatmap(data) ==
    [data |-> data,
     chart |-> Chart("correlation heatmap",
                     SelectSeq(data.table.columns, LAMBDA c : c \notin SeqRange(excluded_cols)))]

\* visualisations.py lines 63-88: daily means of a DatetimeIndex frame,
\* the rows as they are otherwise; both are new frames.
plot_bar_chart(data, col) ==
    [data |-> data,
     chart |-> Chart(IF data.index_dtype = "datetime64[ns]" THEN "bar of daily means" ELSE "bar",
                     <<col>>)]

\* visualisations.py lines 91-114: the Y axis defaults to the first column
\* that is not the X axis.
plot_scatter_chart(data, x_col) ==
    IF Len(data.table.columns) < 2 THEN [data |-> data, chart |-> Chart("warning", <<>>)]
    ELSE LET y_options == SelectSeq(data.table.columns, LAMBDA c : c # x_col)
         IN  [data |-> data, chart |-> Chart("scatter", <<x_col, y_options[1]>>)]

\* visualisations.py lines 20-39, 117-132, 135-149: figures of a frame that
\* is read only (reset_index returns a new frame).
plot_column(kind, data, col) == [data |-> data, chart |-> Chart(kind, <<col>>)]

(* ---------------------------- resample_data --------------------------- *)

\* utils.py lines 10-25: the columns resample_data sums, takes the maximum
\* of, and averages.
resample_sum_cols ==
    <<"Active Energy Burned (kcal)", "Basal Energy Burned (kcal)",
      "Distance Walking & Running (m)", "Flights Climbed", "Step Count">>

max_cols ==
    <<"Headphone Audio Exposure (dB)", "Walking Asymmetry Percentage (%)",
      "Walking Double Support Percentage (%)">>

avg_cols == <<"Walking Speed (m/s)", "Walking Step Length (m)">>

\* utils.py lines 27-29: how resample_data combines the rows of a column.
ResampleMode(name) ==
    IF name \in SeqRange(resample_sum_cols) THEN "sum"
    ELSE IF name \in SeqRange(max_cols) THEN "max"
    ELSE IF name \in SeqRange(avg_cols) THEN "mean"
    ELSE "none"

\* file_parser.py lines 77-94: how xml_parser combines the records of a type.
XmlMode(c) ==
    IF c \in SeqRange(sum_cols) THEN "sum"
    ELSE IF c \in SeqRange(weighted_cols) THEN "duration-weighted mean"
    ELSE "none"

\* file_parser.py lines 180-191: the second lookup table of the Apple types.
apple_health_units ==
    [c \in SeqRange(sum_cols) \cup SeqRange(weighted_cols) |->
        CASE c = "ActiveEnergyBurned" -> "Active Energy Burned (kcal)"
          [] c = "BasalEnergyBurned" -> "Basal Energy Burned (kcal)"
          [] c = "DistanceWalkingRunning" -> "Distance Covered (km)"
          [] c = "FlightsClimbed" -> "Flights Climbed"
          [] c = "HeadphoneAudioExposure" -> "Headphone Audio Exposure (dBASPL)"
          [] c = "StepCount" -> "Step Count"
          [] c = "WalkingAsymmetryPercentage" -> "Walking Asymmetry Percentage (%)"
          [] c = "WalkingDoubleSupportPercentage" -> "Walking Double Support Percentage (%)"
          [] c = "WalkingSpeed" -> "Walking Speed (km/hr)"
          [] c = "WalkingStepLength" -> "Walking Step Length (cm)"]

(* ----------------------------- the program ---------------------------- *)

Init ==
    /\ \/ file = MalformedXml
       \/ \E n \in 0..MaxRecs : \E rs \in [1..n -> XmlRecords] : file = XmlFile(rs)
       \/ file = XmlFile(FullDayRecords)
       \/ \E h \in Headers : \E n \in 0..MaxRows : \E rs \in [1..n -> CsvRowsOf(h)] :
             file = CsvFile(h, rs)
       \/ \E c \in PercentInputs : \E p \in PercentInputs : file = PercentPair(c, p)
    /\ records = <<>>
    /\ result = Pending
    /\ shown = Unshown
    /\ session_data = NotHeld
    /\ chart = NoChart

\* The upload is handed to xml_parser, under the ElementTree implementation
\* the interpreter has loaded.
RunXmlParser ==
    /\ file.kind = "xml"
    /\ result.kind = "pending"
    /\ \E build \in ETreeBuilds :
          /\ records' = IF file.wellformed THEN iterparse_records(file, build) ELSE <<>>
          /\ result' = xml_parser([file EXCEPT !.recs = records'])
    /\ UNCHANGED <<file, shown, session_data, chart>>

\* The upload is handed to csv_parser.
RunCsvParser ==
    /\ file.kind = "csv"
    /\ result.kind = "pending"
    /\ result' = csv_parser(file)
    /\ UNCHANGED <<file, records, shown, session_data, chart>>

\* The upload is handed to excel_parser (main of app.py, line 303).
RunExcelParser ==
    /\ file.kind = "csv"
    /\ result.kind = "pending"
    /\ result' = excel_parser(file)
    /\ UNCHANGED <<file, records, shown, session_data, chart>>

\* The table of the session is summarised: display_metrics on a non-empty
\* table that xml_parser or csv_parser returned.
DisplayMetrics ==
    /\ result.kind = "table"
    /\ result.parser \in {"xml_parser", "csv_parser"}
    /\ ~IsEmpty(result)
    /\ shown = Unshown
    /\ shown' = display_metrics(result)
    /\ UNCHANGED <<file, records, result, session_data, chart>>

\* safe_percentage_change applied to one pair of floats.
ApplySafePercentageChange ==
    /\ file.kind = "percent"
    /\ shown = Unshown
    /\ shown' = Shown("none", 1,
                      <<Metric("delta", 0, safe_percentage_change(file.current, file.previous))>>)
    /\ UNCHANGED <<file, records, result, session_data, chart>>

Next ==
    \/ RunXmlParser
    \/ RunCsvParser
    \/ RunExcelParser
    \/ DisplayMetrics
    \/ ApplySafePercentageChange

Spec == Init /\ [][Next]_vars

(* ----------------------- the pages of the session --------------------- *)

\* The table a parser of file_parser.py returned is stored for the session.
HoldTable ==
    /\ result.kind = "table"
    /\ result.parser \in {"xml_parser", "csv_parser"}
    /\ ~IsEmpty(result)
    /\ ~session_data.held
    /\ session_data' = Held(result, IndexDtype(result))
    /\ UNCHANGED <<file, records, result, shown, chart>>

\* A consumer has run on the table of the session and left it as `after`.
Consumed(after) ==
    /\ session_data' = after.data
    /\ chart' = after.chart
    /\ UNCHANGED <<file, records, result, shown>>

PlotCalendarHeatmap ==
    /\ session_data.held
    /\ \E col \in Selectable(session_data.table) :
          Consumed(plot_calendar_heatmap(session_data, col))

PlotHeatmap ==
    /\ session_data.held
    /\ Consumed(plot_heatmap(session_data))

PlotBarChart ==
    /\ session_data.held
    /\ \E col \in Selectable(session_data.table) :
          Consumed(plot_bar_chart(session_data, col))

PlotScatterChart ==
    /\ session_data.held
    /\ \E col \in Selectable(session_data.table) :
          Consumed(plot_scatter_chart(session_data, col))

PlotLineChart ==
    /\ session_data.held
    /\ \E col \in Selectable(session_data.table) :
          Consumed(plot_column("line", session_data, col))

PlotHistogram ==
    /\ session_data.held
    /\ \E col \in Selectable(session_data.table) :
          Consumed(plot_column("histogram", session_data, col))

PlotBoxPlot ==
    /\ session_data.held
    /\ \E col \in Selectable(session_data.table) :
          Consumed(plot_column("box", session_data, col))

\* One upload, its table held, and the consumers in any order, any number
\* of times.
SessionNext ==
    \/ Next
    \/ HoldTable
    \/ PlotCalendarHeatmap
    \/ PlotLineChart
    \/ PlotHeatmap
    \/ PlotBarChart
    \/ PlotScatterChart
    \/ PlotHistogram
    \/ PlotBoxPlot

SessionSpec == Init /\ [][SessionNext]_vars

(* ------------------------------ properties ---------------------------- *)

\* xml_parser has returned for the uploaded XML file.
XmlDone == file.kind = "xml" /\ result.parser = "xml_parser"
XmlTable == XmlDone /\ result.kind = "table"

\* The list `records` still holds what the Record elements carried.
RecordsKept == records = file.recs

\* csv_parser / excel_parser has returned for the uploaded CSV file.
CsvDone == file.kind = "csv" /\ result.parser = "csv_parser"
ExcelDone == file.kind = "csv" /\ result.parser = "excel_parser"

\* The Record elements of the file of one metric created on one day.
RecsOf(d, c) ==
    {i \in 1..Len(file.recs) :
        /\ file.recs[i].creationDate.ok
        /\ file.recs[i].creationDate.day = d
        /\ StripPrefix(file.recs[i].type) = [ns |-> "", id |-> c]}

\* The rows of the returned table labelled with one day.
RowsAt(d) == {i \in 1..Len(result.index) : result.index[i] = d}

\* The sum of F over the listed Record elements of the file.
SumRecs(S, F(_)) ==
    SumSeq([i \in 1..Len(file.recs) |-> IF i \in S THEN F(file.recs[i]) ELSE 0])

NumericValue(r) == r.value.v
ValueAsParsed(r) == CoerceValue(r.value)

\* Two parser results hold the same table (or both hold none).
SameTable(a, b) ==
    /\ a.kind = b.kind
    /\ a.index = b.index
    /\ a.columns = b.columns
    /\ a.data = b.data

\* C1: whenever xml_parser or csv_parser returns a non-empty table, its date
\* index is strictly increasing (ascending, no date twice).
C1_DateIndexStrictlyIncreasing ==
    (/\ result.kind = "table"
     /\ result.parser \in {"xml_parser", "csv_parser"}
     /\ ~IsEmpty(result))
        => StrictlyIncreasing(result.index)

\* C2, as claimed: for every day and SUM metric whose records all carry a
\* number, the day is exactly one row and the cell is the exact sum of the
\* records' values.
C2_CellIsExactSum ==
    XmlTable =>
        \A d \in Days : \A c \in SeqRange(sum_cols) :
            (RecsOf(d, c) # {} /\ \A i \in RecsOf(d, c) : file.recs[i].value.num)
                => /\ Cardinality(RowsAt(d)) = 1
                   /\ \A i \in RowsAt(d) :
                        result.data[i][xml_rename[c]] = Fin(SumRecs(RecsOf(d, c), NumericValue))

\* C2, amended: for every day and SUM metric with a record, the day is
\* exactly one row and the cell is the sum of the records' values rounded to
\* two decimal places, however the total is split over the records.
C2_CellIsRoundedSum ==
    XmlTable =>
        \A d \in Days : \A c \in SeqRange(sum_cols) :
            RecsOf(d, c) # {}
                => /\ Cardinality(RowsAt(d)) = 1
                   /\ \A i \in RowsAt(d) :
                        result.data[i][xml_rename[c]] =
                            Fin(Round2(SumRecs(RecsOf(d, c), ValueAsParsed)))

\* C2's case: two StepCount records of one day whose total has a third
\* decimal, summed into one cell.
C2_Witness ==
    /\ XmlTable
    /\ \E d \in Days :
         /\ Cardinality(RecsOf(d, "StepCount")) = 2
         /\ SumRecs(RecsOf(d, "StepCount"), NumericValue) % 10 # 0
         /\ \E i \in RowsAt(d) :
              result.data[i]["Step Count"] =
                  Fin(Round2(SumRecs(RecsOf(d, "StepCount"), NumericValue)))

\* C3: for every day and weighted-average metric whose records' durations
\* sum to zero, the cell of the returned table is exactly 0.
C3_ZeroDurationCellIsZero ==
    XmlTable =>
        \A d \in Days : \A c \in SeqRange(weighted_cols) :
            (RecsOf(d, c) # {} /\ SumRecs(RecsOf(d, c), DurationSeconds) = 0)
                => /\ RowsAt(d) # {}
                   /\ \A i \in RowsAt(d) : result.data[i][xml_rename[c]] = Fin(0)

\* The Record elements of the file whose three timestamps parse.
ParseableRecs == SelectSeq(file.recs, LAMBDA r : DatesParse(<<r>>))

\* C4: a record whose timestamp cannot be parsed is dropped alone: the
\* result is the table of the file's other records (of a file whose records
\* were read with their attributes).
C4_BadDateDropsOnlyThatRecord ==
    (XmlDone /\ file.wellformed /\ RecordsKept /\ ~DatesParse(file.recs))
        => SameTable(result, xml_parser(XmlFile(ParseableRecs)))

\* C5: a CSV file without a Date column yields None from csv_parser and from
\* excel_parser, with the error reported and no table.
C5_NoDateColumnGivesNone ==
    ((CsvDone \/ ExcelDone) /\ ~HasDate(file))
        => /\ result.kind = "None"
           /\ result.msg \in {"warning", "error"}
           /\ result.index = <<>> /\ result.columns = <<>> /\ result.data = <<>>

\* C5's case: csv_parser has returned for a file with data rows, the
\* distance column and no Date column.
C5_Witness ==
    /\ CsvDone
    /\ ~HasDate(file)
    /\ file.rows # <<>>
    /\ "Distance (m)" \in SeqRange(file.header)
    /\ result.kind = "None"
    /\ result.msg = "error"

\* (current - previous) / previous * 100 of two floats given in thousandths,
\* to two decimal places.
ExpectedPercent(c, p) ==
    IF p > 0 THEN 10 * RoundHalfEven((c - p) * 10000, p)
    ELSE 10 * RoundHalfEven((p - c) * 10000, -p)

\* A column of the returned table holds 0 in every row.
AllZero(c) == \A i \in 1..Len(result.data) : result.data[i][c] = Fin(0)

\* C6: safe_percentage_change reports "N/A" for a zero baseline and the
\* percentage otherwise, and display_metrics does not fault on a table one
\* of whose headline columns is all zeros.
C6_ZeroBaselineNeverFaults ==
    /\ (file.kind = "percent" /\ shown # Unshown)
          => IF file.previous.n = 0
             THEN shown.metrics[1].delta = NotApplicable
             ELSE shown.metrics[1].delta =
                      Percent(ExpectedPercent(file.current.n, file.previous.n))
    /\ (/\ file.kind \in {"xml", "csv"}
        /\ shown # Unshown
        /\ HeadlineColumns(result) \subseteq SeqRange(result.columns)
        /\ \E c \in HeadlineColumns(result) : AllZero(c))
          => shown.fault = "none"

\* The Record elements of the file whose endDate is not before its startDate.
ForwardRecs == SelectSeq(file.recs, LAMBDA r : DurationSeconds(r) >= 0)

\* C7: a record whose endDate is before its startDate contributes to no
\* cell: the result is the table of the file's other records (of a file
\* whose records were read with their attributes).
C7_NegativeDurationDropped ==
    (XmlDone /\ file.wellformed /\ RecordsKept /\ DatesParse(file.recs))
        => SameTable(result, xml_parser(XmlFile(ForwardRecs)))

\* The source columns in metres and in milliseconds with the column each
\* parser stores them under.
UnitFields(parser) ==
    IF parser = "csv_parser"
    THEN { <<"Distance (m)", "Distance Covered (km)", TRUE>>,
           <<"Cycling duration (ms)", "Cycling duration (s)", FALSE>>,
           <<"Inactive duration (ms)", "Inactive duration (s)", FALSE>>,
           <<"Walking duration (ms)", "Walking duration (s)", FALSE>>,
           <<"Running duration (ms)", "Running duration (s)", FALSE>> }
    ELSE { <<"Distance (m)", "Distance", TRUE>>,
           <<"Walking duration (ms)", "Walking Duration", FALSE>> }

\* C8: in the table of a Google-style file every distance holds the source
\* metres divided by 1000 (shown to two decimal places) and every duration
\* the source milliseconds divided by 1000, divided once.
C8_UnitsDividedOnce ==
    ((CsvDone \/ ExcelDone) /\ result.kind = "table")
        => \A i \in 1..Len(result.data) : \A u \in UnitFields(result.parser) :
             u[2] \in SeqRange(result.columns)
                => LET src == Fillna0(file.rows[i][u[1]]).v
                   IN  result.data[i][u[2]] =
                           Fin(IF u[3] THEN Round2(src \div 1000) ELSE src \div 1000)

\* The default of the Apple-style sources for a value that is not a
\* number: 1.0.
AppleDefault == 1 * 1000

\* C9: a value that is not a number keeps its row and counts as 1.0 in
\* xml_parser (the records read with their attributes); a blank cell of a
\* Google-style file counts as 0.
C9_DefaultBySourceFormat ==
    /\ (/\ XmlDone /\ file.wellformed /\ RecordsKept
        /\ file.recs # <<>> /\ DatesParse(file.recs))
          => result = XmlAssemble(XmlRowsWith(file.recs, AppleDefault))
    /\ (CsvDone /\ result.kind = "table")
          => \A i \in 1..Len(result.data) : \A c \in SeqRange(GoogleColumns) :
               (file.rows[i][c] = NaN /\ google_fit_units[c] \in SeqRange(result.columns))
                  => result.data[i][google_fit_units[c]] = Fin(0)

CanonicalNames ==
    {xml_rename[c] : c \in DOMAIN xml_rename}
        \cup {google_fit_units[c] : c \in DOMAIN google_fit_units}

\* C11: every column of a table returned by xml_parser or csv_parser is a
\* name of the canonical vocabulary; a record type or source column without
\* an entry in the lookup table is not a column of the table.
C11_ColumnsAreCanonical ==
    (result.kind = "table" /\ result.parser \in {"xml_parser", "csv_parser"})
        => SeqRange(result.columns) \subseteq CanonicalNames

\* The Apple type a column of the table of xml_parser was renamed from.
SourceType(name) == CHOOSE c \in DOMAIN xml_rename : xml_rename[c] = name

\* C13: every metric of a table of xml_parser is combined the same way
\* wherever the program combines it (xml_parser and resample_data), and its
\* source type has the same canonical name and unit in both lookup tables.
C13_OneModeAndUnitPerMetric ==
    XmlTable =>
        \A j \in 1..Len(result.columns) :
            LET name == result.columns[j]
                c == SourceType(name)
            IN  /\ ResampleMode(name) # "none" => ResampleMode(name) = XmlMode(c)
                /\ apple_health_units[c] = name

\* The table csv_parser returned, as a frame for a further pass.
ResultFrame == Frame(result.index, result.columns, result.data)

\* C14: the normalization of csv_parser (rename, division by 1000, rounding,
\* drop of the all-zero cycling column) applied to the table csv_parser
\* returned, whose columns are canonical already, gives that table again.
C14_NormalizeIdempotent ==
    (CsvDone /\ result.kind = "table")
        => SameTable(CsvNormalize(ResultFrame), result)

\* value * duration of a Record element: of its numeric text, and of the
\* value as xml_parser reads it.
NumericWeighted(r) == r.value.v * DurationSeconds(r)
ParsedWeighted(r) == CoerceValue(r.value) * DurationSeconds(r)

\* n / d (d # 0) rounded to two decimal places, in thousandths.
RoundedQuotient(n, d) ==
    IF d > 0 THEN 10 * RoundHalfEven(n, 10 * d) ELSE 10 * RoundHalfEven(-n, 10 * (-d))

AllPositive(S) == \A i \in S : DurationSeconds(file.recs[i]) > 0

\* C15, as claimed: for every day and weighted-average metric whose records
\* carry numbers and whose durations do not sum to zero, the cell is exactly
\* sum(value * duration) / sum(duration) over the records of that metric and
\* day, and lies between the smallest and the largest value when every
\* duration is positive.
C15_CellIsExactWeightedMean ==
    XmlTable =>
        \A d \in Days : \A c \in SeqRange(weighted_cols) :
            LET S == RecsOf(d, c)
                D == SumRecs(S, DurationSeconds)
            IN  (S # {} /\ D # 0 /\ \A i \in S : file.recs[i].value.num)
                  => /\ RowsAt(d) # {}
                     /\ \A i \in RowsAt(d) :
                          LET cell == result.data[i][xml_rename[c]]
                          IN  /\ cell.k = "fin"
                              /\ cell.v * D = SumRecs(S, NumericWeighted)
                              /\ AllPositive(S) =>
                                    /\ \E j \in S : file.recs[j].value.v <= cell.v
                                    /\ \E j \in S : cell.v <= file.recs[j].value.v

\* C15, amended: the cell is that quotient rounded to two decimal places,
\* numerator and denominator over the same records, and lies between the
\* smallest and the largest value, each rounded to two decimal places, when
\* every duration is positive.
C15_CellIsRoundedWeightedMean ==
    XmlTable =>
        \A d \in Days : \A c \in SeqRange(weighted_cols) :
            LET S == RecsOf(d, c)
                D == SumRecs(S, DurationSeconds)
            IN  (S # {} /\ D # 0)
                  => /\ RowsAt(d) # {}
                     /\ \A i \in RowsAt(d) :
                          LET cell == result.data[i][xml_rename[c]]
                          IN  /\ cell = Fin(RoundedQuotient(SumRecs(S, ParsedWeighted), D))
                              /\ AllPositive(S) =>
                                    /\ \E j \in S : Round2(ValueAsParsed(file.recs[j])) <= cell.v
                                    /\ \E j \in S : cell.v <= Round2(ValueAsParsed(file.recs[j]))

\* C15's case: two WalkingSpeed records of one day with different values and
\* positive durations, averaged into one cell that needed rounding.
C15_Witness ==
    /\ XmlTable
    /\ \E d \in Days :
         LET S == RecsOf(d, "WalkingSpeed")
             D == SumRecs(S, DurationSeconds)
         IN  /\ Cardinality(S) = 2
             /\ AllPositive(S)
             /\ \E i \in S : \E j \in S : file.recs[i].value # file.recs[j].value
             /\ \A i \in S : file.recs[i].value.num
             /\ \E i \in RowsAt(d) :
                  /\ result.data[i]["Walking Speed (m/s)"] =
                         Fin(RoundedQuotient(SumRecs(S, NumericWeighted), D))
                  /\ result.data[i]["Walking Speed (m/s)"].v * D # SumRecs(S, NumericWeighted)

\* C16: display_metrics, on a table that has the columns it reads, ends
\* without fault; it reports four metrics, the fourth being the heart points,
\* when the table has the "Heart Points" column (whatever its mean, 0
\* included) and three when it has not; the slots allocated are as many as
\* the metrics written.
C16_SlotsMatchHeadlineMetrics ==
    (/\ file.kind \in {"xml", "csv"}
     /\ shown # Unshown
     /\ HeadlineColumns(result) \subseteq SeqRange(result.columns))
        => /\ shown.fault = "none"
           /\ Len(shown.metrics) =
                 (IF "Heart Points" \in SeqRange(result.columns) THEN 4 ELSE 3)
           /\ "Heart Points" \in SeqRange(result.columns)
                 => shown.metrics[4].label = "Average Heart Points"
           /\ shown.slots = Len(shown.metrics)

\* C12: once a table is held for the session, no step of a consumer
\* (display_metrics or a plot function, in any order, any number of times)
\* changes its index, its columns or its cells; the behaviours have one
\* upload, so the held table never changes.
C12_HeldTableReadOnly == [][session_data.held => session_data' = session_data]_vars

\* The attributes of the elements with tag Record, in document order.
RecordElements(f) ==
    LET kept == SelectSeq(EndEvents(f), LAMBDA e : e.tag = "Record")
    IN  [i \in 1..Len(kept) |-> kept[i].attrib]

====
